---- MODULE Spec2Model ----
(***************************************************************************)
(* Model of the GPIO pin driver os/pi/src/gpio.rs.                         *)
(*                                                                         *)
(* A 32-bit register word is the set of its bit positions that hold 1      *)
(* (a subset of 0..31): OR is union, AND is intersection, NOT is the       *)
(* complement in 0..31 and a left shift drops the bits shifted past 31.    *)
(* Every operation first computes the list of register accesses the code   *)
(* issues (its bus traffic) and the step then applies that list to the     *)
(* register block.                                                         *)
(***************************************************************************)
EXTENDS Integers, Sequences, FiniteSets, TLC

VARIABLES FSEL, out, handles, last, panicked, inflight, overlapped

vars == <<FSEL, out, handles, last, panicked, inflight, overlapped>>

(* ----------------------------- bounds ---------------------------------- *)

\* number of handles the modelled program creates
MaxHandles == 2

\* arguments the multi-handle program passes to new(): two pins sharing a
\* function-select word, a pin of the second SET/CLR/LEV word, an invalid pin
PinInputs == {4, 5, 35, 54}

\* every value of the u8 argument of new()
AllPins == 0..255

\* contents the six function-select words may hold at start
PriorWords == {{}, {1, 12, 14, 16, 31}, 0..31}

\* contents the hardware may present in a level word when it is read
LevWords == {{}, {0}, {3, 4, 21}}

(* ------------------------ machine arithmetic --------------------------- *)

WordBits == 0..31

\* 2^n for the small n needed to decode a u8
RECURSIVE Pow2(_)
Pow2(n) == IF n = 0 THEN 1 ELSE 2 * Pow2(n - 1)

\* `x as u32` for a u8 value x: zero extension
AsU32(x) == {i \in 0..7 : (x \div Pow2(i)) % 2 = 1}

\* u32 `w << n`, n < 32
Shl(w, n) == {b + n : b \in w} \cap WordBits

\* u32 `!w`
Not(w) == WordBits \ w

\* u32 `a & b`
And(a, b) == a \cap b

\* u32 `a | b`
Or(a, b) == a \cup b

(* --------------------------- Function ---------------------------------- *)

Function == {"Input", "Output", "Alt0", "Alt1", "Alt2", "Alt3", "Alt4", "Alt5"}

\* the discriminants with Alt4 and Alt5 in numeric order
FunctionCode_alt_in_order(f) ==
    CASE f = "Input"  -> 0
      [] f = "Output" -> 1
      [] f = "Alt0"   -> 4
      [] f = "Alt1"   -> 5
      [] f = "Alt2"   -> 6
      [] f = "Alt3"   -> 7
      [] f = "Alt4"   -> 2
      [] f = "Alt5"   -> 3

\* the #[repr(u8)] discriminants
FunctionCode(f) ==
    CASE f = "Input"  -> 0
      [] f = "Output" -> 1
      [] f = "Alt0"   -> 4
      [] f = "Alt1"   -> 5
      [] f = "Alt2"   -> 6
      [] f = "Alt3"   -> 7
      [] f = "Alt4"   -> 3
      [] f = "Alt5"   -> 2

States == {"Uninitialized", "Input", "Output", "Alt"}

(* ------------------------ register accesses ---------------------------- *)

Read(reg, idx, val)  == [kind |-> "r", reg |-> reg, idx |-> idx, val |-> val]
Write(reg, idx, val) == [kind |-> "w", reg |-> reg, idx |-> idx, val |-> val]

\* Volatile::or_mask: one read of the word, one write of word | mask
or_mask(reg, idx, cur, mask) ==
    <<Read(reg, idx, cur), Write(reg, idx, Or(cur, mask))>>

\* the function-select words after the accesses acc
RECURSIVE ApplyFSEL(_, _)
ApplyFSEL(fsel, acc) ==
    IF acc = <<>> THEN fsel
    ELSE LET a == Head(acc) IN
         ApplyFSEL(IF a.kind = "w" /\ a.reg = "FSEL"
                   THEN [fsel EXCEPT ![a.idx] = a.val] ELSE fsel, Tail(acc))

\* the driven output levels after the accesses acc: a 1 written to SET
\* drives the pin high, a 1 written to CLR drives it low, 0 bits are no-ops
RECURSIVE ApplyOut(_, _)
ApplyOut(o, acc) ==
    IF acc = <<>> THEN o
    ELSE LET a == Head(acc) IN
         ApplyOut(IF a.kind = "w" /\ a.reg = "SET"
                  THEN [o EXCEPT ![a.idx] = Or(@, a.val)]
                  ELSE IF a.kind = "w" /\ a.reg = "CLR"
                  THEN [o EXCEPT ![a.idx] = And(@, Not(a.val))]
                  ELSE o, Tail(acc))

(* ----------------------------- handles --------------------------------- *)

\* Gpio<State>: the pin, the state tag, and (history) the function handed to
\* into_alt and the configuration calls made on the handle
Gpio(pin, state) == [pin |-> pin, state |-> state, fn |-> "None", cfg |-> <<>>]

\* transition building the new handle without copying the pin
transition_loses_pin(g, S) == [g EXCEPT !.state = S, !.pin = 0]

\* Gpio<T>::transition<S>
transition(g, S) == [g EXCEPT !.state = S]

\* history of configuration calls, recorded up to two entries
Called(g, name) == [g EXCEPT !.cfg = IF Len(@) < 2 THEN Append(@, name) ELSE @]

HandleIds == 1..Len(handles)

NoOp == [op |-> "none", h |-> 0, pin |-> 0, fn |-> "None", ret |-> "none", acc |-> <<>>]

Init ==
    /\ \E w \in PriorWords : FSEL = [i \in 0..5 |-> w]
    /\ out = [i \in 0..1 |-> {}]
    /\ handles = <<>>
    /\ last = NoOp
    /\ panicked = FALSE
    /\ inflight = {}
    /\ overlapped = FALSE

(* ------------------------- the driver's functions ---------------------- *)

\* new with the range check off by one
new_off_by_one(pin) ==
    IF pin > 54
    THEN [panic |-> TRUE, g |-> Gpio(0, "Uninitialized")]
    ELSE [panic |-> FALSE, g |-> Gpio(pin, "Uninitialized")]

\* Gpio::new: the range check and the construction
new(pin) ==
    IF pin > 53
    THEN [panic |-> TRUE, g |-> Gpio(0, "Uninitialized")]
    ELSE [panic |-> FALSE, g |-> Gpio(pin, "Uninitialized")]

\* into_alt storing the shifted payload instead of ORing it in
into_alt_overwrite(g, function, fsel) ==
    LET fsel_index == g.pin \div 10
        offset     == g.pin - fsel_index * 10
        payload    == AsU32(FunctionCode(function))
    IN  [acc |-> <<Write("FSEL", fsel_index, Shl(payload, 3 * offset))>>,
         g   |-> transition([g EXCEPT !.fn = function], "Alt")]

\* into_alt clearing the pin's field before ORing the payload in
into_alt_clear_first(g, function, fsel) ==
    LET fsel_index == g.pin \div 10
        offset     == g.pin - fsel_index * 10
        payload    == AsU32(FunctionCode(function))
        cleared    == And(fsel[fsel_index], Not(Shl(AsU32(7), 3 * offset)))
    IN  [acc |-> <<Read("FSEL", fsel_index, fsel[fsel_index]),
                   Write("FSEL", fsel_index, Or(cleared, Shl(payload, 3 * offset)))>>,
         g   |-> transition([g EXCEPT !.fn = function], "Alt")]

\* into_alt indexing the function-select words as set() indexes SET
into_alt_index_by_32(g, function, fsel) ==
    LET fsel_index == g.pin \div 32
        offset     == g.pin - (g.pin \div 10) * 10
        payload    == AsU32(FunctionCode(function))
    IN  [acc |-> or_mask("FSEL", fsel_index, fsel[fsel_index], Shl(payload, 3 * offset)),
         g   |-> transition([g EXCEPT !.fn = function], "Alt")]

\* Gpio<Uninitialized>::into_alt: the accesses issued and the handle returned
into_alt(g, function, fsel) ==
    LET fsel_index == g.pin \div 10
        offset     == g.pin - fsel_index * 10
        payload    == AsU32(FunctionCode(function))
    IN  [acc |-> or_mask("FSEL", fsel_index, fsel[fsel_index], Shl(payload, 3 * offset)),
         g   |-> transition([g EXCEPT !.fn = function], "Alt")]

\* into_output handing the wrong function to into_alt
into_output_wrong_function(g, fsel) ==
    LET r == into_alt(g, "Alt5", fsel)
    IN  [acc |-> r.acc, g |-> transition(r.g, "Output")]

\* Gpio<Uninitialized>::into_output
into_output(g, fsel) ==
    LET r == into_alt(g, "Output", fsel)
    IN  [acc |-> r.acc, g |-> transition(r.g, "Output")]

\* into_input copied from into_output without changing the function
into_input_as_output(g, fsel) ==
    LET r == into_alt(g, "Output", fsel)
    IN  [acc |-> r.acc, g |-> transition(r.g, "Input")]

\* Gpio<Uninitialized>::into_input
into_input(g, fsel) ==
    LET r == into_alt(g, "Input", fsel)
    IN  [acc |-> r.acc, g |-> transition(r.g, "Input")]

\* set always addressing the first SET word
set_first_word(g) ==
    LET set_index == g.pin \div 32
        offset    == g.pin - 32 * set_index
        payload   == AsU32(1)
    IN  <<Write("SET", 0, Shl(payload, offset))>>

\* set shifting by the pin number itself
set_no_subtract(g) ==
    LET set_index == g.pin \div 32
        offset    == g.pin
        payload   == AsU32(1)
    IN  <<Write("SET", set_index, Shl(payload, offset))>>

\* Gpio<Output>::set: the accesses issued
set(g) ==
    LET set_index == g.pin \div 32
        offset    == g.pin - 32 * set_index
        payload   == AsU32(1)
    IN  <<Write("SET", set_index, Shl(payload, offset))>>

\* clear writing the one-bit mask to the CLR word
clear_via_clr(g) ==
    LET clr_index == g.pin \div 32
        offset    == g.pin - 32 * clr_index
        payload   == AsU32(1)
    IN  <<Write("CLR", clr_index, Shl(payload, offset))>>

\* Gpio<Output>::clear: the accesses issued
clear(g) ==
    LET clr_index == g.pin \div 32
        offset    == g.pin - 32 * clr_index
        payload   == AsU32(1)
    IN  <<Write("SET", clr_index, Not(Shl(payload, offset)))>>

\* level acknowledging the pin with a write after the read
level_with_write(g, lev) ==
    LET level_index == g.pin \div 32
        offset      == g.pin - 32 * level_index
        payload     == AsU32(1)
        value       == lev[level_index]
    IN  [acc |-> <<Read("LEV", level_index, value),
                   Write("SET", level_index, Shl(payload, offset))>>,
         ret |-> And(value, payload) # {}]

\* Gpio<Input>::level: the accesses issued and the value returned
level(g, lev) ==
    LET level_index == g.pin \div 32
        offset      == g.pin - 32 * level_index
        payload     == AsU32(1)
        value       == lev[level_index]
    IN  [acc |-> <<Read("LEV", level_index, value)>>,
         ret |-> And(value, payload) # {}]

(* ------------------------------ steps ---------------------------------- *)

\* the register block after an operation's accesses
Issue(acc) ==
    /\ FSEL' = ApplyFSEL(FSEL, acc)
    /\ out' = ApplyOut(out, acc)

\* new refusing a pin that a live handle already owns
New_one_handle_per_pin(pin) ==
    /\ ~panicked
    /\ Len(handles) < MaxHandles
    /\ LET r == new(pin)
           fatal == r.panic \/ \E h \in HandleIds : handles[h].pin = pin
       IN
       /\ panicked' = fatal
       /\ handles' = IF fatal THEN handles ELSE Append(handles, r.g)
       /\ last' = [NoOp EXCEPT !.op = "new", !.pin = pin,
                               !.h = IF fatal THEN 0 ELSE Len(handles) + 1,
                               !.ret = IF fatal THEN "panic" ELSE "ok"]
    /\ UNCHANGED <<FSEL, out, inflight, overlapped>>

\* a call of Gpio::new(pin)
New(pin) ==
    /\ ~panicked
    /\ Len(handles) < MaxHandles
    /\ LET r == new(pin) IN
       /\ panicked' = r.panic
       /\ handles' = IF r.panic THEN handles ELSE Append(handles, r.g)
       /\ last' = [NoOp EXCEPT !.op = "new", !.pin = pin,
                               !.h = IF r.panic THEN 0 ELSE Len(handles) + 1,
                               !.ret = IF r.panic THEN "panic" ELSE "ok"]
    /\ UNCHANGED <<FSEL, out, inflight, overlapped>>

\* a call of into_alt(function) on handle h; impl Gpio<Uninitialized>
IntoAlt(h, function) ==
    /\ ~panicked
    /\ handles[h].state = "Uninitialized"
    /\ LET r == into_alt(handles[h], function, FSEL) IN
       /\ Issue(r.acc)
       /\ handles' = [handles EXCEPT ![h] = Called(r.g, "into_alt")]
       /\ last' = [NoOp EXCEPT !.op = "into_alt", !.h = h, !.pin = handles[h].pin,
                               !.fn = function, !.ret = "ok", !.acc = r.acc]
    /\ UNCHANGED <<panicked, inflight, overlapped>>

\* into_output callable in every state (as if declared in impl<T> Gpio<T>)
IntoOutput_any_state(h) ==
    /\ ~panicked
    /\ LET r == into_output(handles[h], FSEL) IN
       /\ Issue(r.acc)
       /\ handles' = [handles EXCEPT ![h] = Called(r.g, "into_output")]
       /\ last' = [NoOp EXCEPT !.op = "into_output", !.h = h, !.pin = handles[h].pin,
                               !.ret = "ok", !.acc = r.acc]
    /\ UNCHANGED <<panicked, inflight, overlapped>>

\* a call of into_output() on handle h; impl Gpio<Uninitialized>
IntoOutput(h) ==
    /\ ~panicked
    /\ handles[h].state = "Uninitialized"
    /\ LET r == into_output(handles[h], FSEL) IN
       /\ Issue(r.acc)
       /\ handles' = [handles EXCEPT ![h] = Called(r.g, "into_output")]
       /\ last' = [NoOp EXCEPT !.op = "into_output", !.h = h, !.pin = handles[h].pin,
                               !.ret = "ok", !.acc = r.acc]
    /\ UNCHANGED <<panicked, inflight, overlapped>>

\* a call of into_input() on handle h; impl Gpio<Uninitialized>
IntoInput(h) ==
    /\ ~panicked
    /\ handles[h].state = "Uninitialized"
    /\ LET r == into_input(handles[h], FSEL) IN
       /\ Issue(r.acc)
       /\ handles' = [handles EXCEPT ![h] = Called(r.g, "into_input")]
       /\ last' = [NoOp EXCEPT !.op = "into_input", !.h = h, !.pin = handles[h].pin,
                               !.ret = "ok", !.acc = r.acc]
    /\ UNCHANGED <<panicked, inflight, overlapped>>

\* set callable in every state (as if declared in impl<T> Gpio<T>)
Set_any_state(h) ==
    /\ ~panicked
    /\ LET acc == set(handles[h]) IN
       /\ Issue(acc)
       /\ last' = [NoOp EXCEPT !.op = "set", !.h = h, !.pin = handles[h].pin,
                               !.ret = "ok", !.acc = acc]
    /\ UNCHANGED <<handles, panicked, inflight, overlapped>>

\* a call of set() on handle h; impl Gpio<Output>
Set(h) ==
    /\ ~panicked
    /\ handles[h].state = "Output"
    /\ LET acc == set(handles[h]) IN
       /\ Issue(acc)
       /\ last' = [NoOp EXCEPT !.op = "set", !.h = h, !.pin = handles[h].pin,
                               !.ret = "ok", !.acc = acc]
    /\ UNCHANGED <<handles, panicked, inflight, overlapped>>

\* a call of clear() on handle h; impl Gpio<Output>
Clear(h) ==
    /\ ~panicked
    /\ handles[h].state = "Output"
    /\ LET acc == clear(handles[h]) IN
       /\ Issue(acc)
       /\ last' = [NoOp EXCEPT !.op = "clear", !.h = h, !.pin = handles[h].pin,
                               !.ret = "ok", !.acc = acc]
    /\ UNCHANGED <<handles, panicked, inflight, overlapped>>

\* a call of level() on handle h; impl Gpio<Input>.  LEV is a read-only
\* hardware input: the words it presents at the read are LEV
Level(h, LEV) ==
    /\ ~panicked
    /\ handles[h].state = "Input"
    /\ LET r == level(handles[h], LEV) IN
       /\ Issue(r.acc)
       /\ last' = [NoOp EXCEPT !.op = "level", !.h = h, !.pin = handles[h].pin,
                               !.ret = IF r.ret THEN "true" ELSE "false", !.acc = r.acc]
    /\ UNCHANGED <<handles, panicked, inflight, overlapped>>

Next ==
    \/ \E pin \in PinInputs : New(pin)
    \/ \E h \in HandleIds, function \in Function : IntoAlt(h, function)
    \/ \E h \in HandleIds : IntoOutput(h)
    \/ \E h \in HandleIds : IntoInput(h)
    \/ \E h \in HandleIds : Set(h)
    \/ \E h \in HandleIds : Clear(h)
    \/ \E h \in HandleIds, w \in LevWords : Level(h, [i \in 0..1 |-> w])

\* a program that creates up to MaxHandles handles, for the pins of PinInputs
Spec == Init /\ [][Next]_vars

\* the register block after reset: every function-select word is zero
InitZero == Init /\ \A i \in 0..5 : FSEL[i] = {}

\* the multi-handle program started on a block with zero function-select words
SpecZero == InitZero /\ [][Next]_vars

\* into_alt(function) on handle h running on its own flow of control, up to
\* and including the read of or_mask: the word read is kept in inflight
IntoAltRead(h, function) ==
    /\ ~panicked
    /\ handles[h].state = "Uninitialized"
    /\ \A e \in inflight : e.h # h
    /\ LET r    == into_alt(handles[h], function, FSEL)
           rd   == SubSeq(r.acc, 1, Len(r.acc) - 1)
       IN
       /\ inflight' = inflight \cup {[h |-> h, function |-> function, rd |-> rd]}
       /\ last' = [NoOp EXCEPT !.op = "into_alt.read", !.h = h, !.pin = handles[h].pin,
                               !.fn = function, !.ret = "ok", !.acc = rd]
    /\ overlapped' = (overlapped \/ inflight # {})
    /\ UNCHANGED <<FSEL, out, handles, panicked>>

\* the rest of that into_alt: the write of or_mask, computed from the word
\* as it was read, and the transition
IntoAltWrite(h) ==
    /\ ~panicked
    /\ \E e \in inflight :
         /\ e.h = h
         /\ LET seen == IF e.rd = <<>> THEN FSEL
                        ELSE [FSEL EXCEPT ![e.rd[1].idx] = e.rd[1].val]
                r    == into_alt(handles[h], e.function, seen)
                wr   == <<r.acc[Len(r.acc)]>>
            IN
            /\ Issue(wr)
            /\ handles' = [handles EXCEPT ![h] = Called(r.g, "into_alt")]
            /\ last' = [NoOp EXCEPT !.op = "into_alt.write", !.h = h, !.pin = handles[h].pin,
                                    !.fn = e.function, !.ret = "ok", !.acc = wr]
         /\ inflight' = inflight \ {e}
    /\ UNCHANGED <<panicked, overlapped>>

NextRace ==
    \/ \E pin \in PinInputs : New(pin)
    \/ \E h \in HandleIds, function \in Function : IntoAltRead(h, function)
    \/ \E h \in HandleIds : IntoAltWrite(h)

\* a program whose into_alt calls run on several flows of control, so that
\* the read and the write of one call may be separated by steps of another
SpecRace == Init /\ [][NextRace]_vars

\* the first call of Gpio::new in a program
FirstNew(pin) == handles = <<>> /\ New(pin)

NextPin ==
    \/ \E pin \in AllPins : FirstNew(pin)
    \/ \E h \in HandleIds, function \in Function : IntoAlt(h, function)
    \/ \E h \in HandleIds : IntoOutput(h)
    \/ \E h \in HandleIds : IntoInput(h)
    \/ \E h \in HandleIds : Set(h)
    \/ \E h \in HandleIds : Clear(h)
    \/ \E h \in HandleIds, LEV \in [0..1 -> LevWords] : Level(h, LEV)

\* a program that creates one handle, for any argument of new()
SpecPin == Init /\ [][NextPin]_vars

(* ------------------------------ claims --------------------------------- *)

\* the value of the 3-bit field at position pos (0..9) of a function-select word
FieldOf(w, pos) ==
    (IF 3 * pos \in w THEN 1 ELSE 0) + (IF 3 * pos + 1 \in w THEN 2 ELSE 0)
        + (IF 3 * pos + 2 \in w THEN 4 ELSE 0)

\* the bits of the 3-bit field at position pos
FieldBits(pos) == {3 * pos, 3 * pos + 1, 3 * pos + 2}

\* C1: new(pin) for pin in 0..53 appends one handle, Uninitialized and bound
\* to pin, and does not panic; new(pin) for pin in 54..255 panics and
\* produces no handle.
C1_NewContract ==
    [][\A pin \in AllPins :
        (last'.op = "new" /\ last'.pin = pin) =>
            IF pin <= 53
            THEN /\ ~panicked'
                 /\ last'.ret = "ok"
                 /\ Len(handles') = Len(handles) + 1
                 /\ SubSeq(handles', 1, Len(handles)) = handles
                 /\ handles'[Len(handles')].pin = pin
                 /\ handles'[Len(handles')].state = "Uninitialized"
            ELSE /\ panicked'
                 /\ last'.ret = "panic"
                 /\ handles' = handles]_vars

\* new(53), the largest valid pin, has produced an Uninitialized handle
C1_Witness ==
    /\ last.op = "new" /\ last.pin = 53 /\ last.ret = "ok"
    /\ Len(handles) = 1 /\ handles[1].pin = 53 /\ handles[1].state = "Uninitialized"

\* C2: after into_alt(f) the 3-bit field of the pin in FSEL word pin/10
\* equals the code of f, whatever the word held before.
C2_FieldEqualsCode ==
    last.op = "into_alt" =>
        FieldOf(FSEL[last.pin \div 10], last.pin - 10 * (last.pin \div 10))
            = FunctionCode(last.fn)

\* C3: into_alt, into_input and into_output leave every bit of FSEL word
\* pin/10 outside the pin's own 3-bit field as it was, and so never alter the
\* fields of the other pins of the word.
C3_OtherFieldsKept ==
    [][last'.op \in {"into_alt", "into_input", "into_output"} =>
        LET idx == last'.pin \div 10
            pos == last'.pin - 10 * idx
        IN  /\ FSEL'[idx] \ FieldBits(pos) = FSEL[idx] \ FieldBits(pos)
            /\ \A q \in 0..9 : q # pos => FieldOf(FSEL'[idx], q) = FieldOf(FSEL[idx], q)]_vars

\* into_alt(Alt4) on pin 4 changed the pin's field from 101 to 111 in a word
\* whose other bits 1, 16 and 31 are still set
C3_Witness ==
    /\ last.op = "into_alt" /\ last.pin = 4 /\ last.fn = "Alt4"
    /\ FSEL[0] = {1, 12, 13, 14, 16, 31}

\* C4: set() on pin p issues exactly one access: a write of the word with
\* only bit p - 32*(p/32) set to SET word p/32; no function-select word
\* changes.
C4_SetOneWrite ==
    [][last'.op = "set" =>
        LET idx == last'.pin \div 32
        IN  /\ last'.acc = <<Write("SET", idx, {last'.pin - 32 * idx})>>
            /\ FSEL' = FSEL]_vars

\* set() on pin 35 wrote bit 3 of SET word 1
C4_Witness ==
    /\ last.op = "set" /\ last.pin = 35
    /\ last.acc = <<Write("SET", 1, {3})>>

\* C5: clear() on pin p issues a single write of the word with only bit
\* p - 32*(p/32) set to CLR word p/32.
C5_ClearWritesClr ==
    last.op = "clear" =>
        last.acc = <<Write("CLR", last.pin \div 32, {last.pin - 32 * (last.pin \div 32)})>>

\* C6: level() on pin p returns true exactly when bit p - 32*(p/32) of the
\* LEV word p/32 it read is 1.
C6_LevelIsPinBit ==
    last.op = "level" =>
        /\ Len(last.acc) = 1
        /\ last.acc[1] = Read("LEV", last.pin \div 32, last.acc[1].val)
        /\ (last.ret = "true") <=> (last.pin - 32 * (last.pin \div 32) \in last.acc[1].val)

\* C7: a handle starts Uninitialized; its tag changes only from
\* Uninitialized to Input (by into_input), to Output (by into_output) or to
\* Alt (by into_alt); handles are never removed and a tag that has left
\* Uninitialized never changes again.
C7_StateMachine ==
    [][/\ Len(handles') >= Len(handles)
       /\ \A h \in 1..Len(handles') :
            IF h > Len(handles)
            THEN handles'[h].state = "Uninitialized"
            ELSE \/ handles'[h].state = handles[h].state
                 \/ /\ handles[h].state = "Uninitialized"
                    /\ last'.h = h
                    /\ <<handles'[h].state, last'.op>> \in
                         {<<"Input", "into_input">>, <<"Output", "into_output">>,
                          <<"Alt", "into_alt">>}]_vars

\* an Input handle and an Output handle exist and the Output one is in use
C7_Witness ==
    /\ Len(handles) = 2
    /\ handles[1].state = "Input" /\ handles[2].state = "Output"
    /\ last.op = "clear" /\ last.h = 2

\* C8: set() and clear() happen only on a handle in state Output whose
\* configuration history is the single call into_output; level() only on a
\* handle in state Input whose history is the single call into_input.
C8_ConfigPrecedesUse ==
    /\ last.op \in {"set", "clear"} =>
         /\ handles[last.h].state = "Output"
         /\ handles[last.h].cfg = <<"into_output">>
    /\ last.op = "level" =>
         /\ handles[last.h].state = "Input"
         /\ handles[last.h].cfg = <<"into_input">>

\* level() ran on a handle configured by into_input while another handle is
\* still Uninitialized
C8_Witness ==
    /\ last.op = "level" /\ handles[last.h].cfg = <<"into_input">>
    /\ \E h \in HandleIds : handles[h].state = "Uninitialized"

\* C9: into_output() issues the accesses of into_alt(Output) and leaves the
\* function-select words as into_alt(Output) would, returning an Output
\* handle; into_input() likewise with into_alt(Input) and an Input handle.
C9_SameMutation ==
    [][/\ last'.op = "into_output" =>
            LET r == into_alt(handles[last'.h], "Output", FSEL)
            IN  /\ last'.acc = r.acc
                /\ FSEL' = ApplyFSEL(FSEL, r.acc)
                /\ out' = out
                /\ handles'[last'.h].state = "Output"
                /\ handles'[last'.h].pin = r.g.pin
       /\ last'.op = "into_input" =>
            LET r == into_alt(handles[last'.h], "Input", FSEL)
            IN  /\ last'.acc = r.acc
                /\ FSEL' = ApplyFSEL(FSEL, r.acc)
                /\ out' = out
                /\ handles'[last'.h].state = "Input"
                /\ handles'[last'.h].pin = r.g.pin]_vars

\* into_output() on pin 21 turned field 1 of the zero word FSEL[2] into 001
C9_Witness ==
    /\ last.op = "into_output" /\ last.pin = 21
    /\ FSEL[2] = {3}
    /\ last.acc = <<Read("FSEL", 2, {}), Write("FSEL", 2, {3})>>

\* C10: level() issues no write: the function-select words and the driven
\* output levels are the same after it as before.
C10_LevelPure ==
    [][last'.op = "level" =>
        /\ \A i \in 1..Len(last'.acc) : last'.acc[i].kind = "r"
        /\ FSEL' = FSEL
        /\ out' = out
        /\ handles' = handles]_vars

\* level() returned true on pin 35 with non-zero function-select words
C10_Witness ==
    /\ last.op = "level" /\ last.ret = "true" /\ last.pin = 35
    /\ FSEL[3] # {}

\* C11: every handle has a pin in 0..53; a handle's pin is the argument of
\* the new() that created it and no later step changes it.
C11_PinInRangeAndFixed ==
    [][\A h \in 1..Len(handles') :
        /\ handles'[h].pin \in 0..53
        /\ h <= Len(handles) => handles'[h].pin = handles[h].pin
        /\ h > Len(handles) =>
             (last'.op = "new" /\ last'.h = h /\ handles'[h].pin = last'.pin)]_vars

\* the Output handle of pin 35 was cleared while the handle of pin 4 is Alt
C11_Witness ==
    /\ Len(handles) = 2
    /\ handles[1].pin = 4 /\ handles[1].state = "Alt"
    /\ handles[2].pin = 35 /\ handles[2].state = "Output"
    /\ last.op = "clear" /\ last.h = 2 /\ last.pin = 35

\* the codes as the specification lists them
ListedCode ==
    [Input |-> 0, Output |-> 1, Alt0 |-> 4, Alt1 |-> 5, Alt2 |-> 6, Alt3 |-> 7,
     Alt4 |-> 3, Alt5 |-> 2]

\* the function a configuration call hands to the hardware
FunctionOf(l) ==
    IF l.op = "into_output" THEN "Output"
    ELSE IF l.op = "into_input" THEN "Input" ELSE l.fn

\* C12: the eight functions have the listed, pairwise distinct 3-bit codes,
\* no alternate function shares the code of Input or Output, and every
\* configuration call writes the word it read ORed with the listed code of
\* its function shifted to the pin's field.
C12_ClosedEncoding ==
    /\ \A f \in Function : FunctionCode(f) = ListedCode[f]
    /\ {FunctionCode(f) : f \in Function} = 0..7
    /\ \A f \in Function \ {"Input", "Output"} :
         FunctionCode(f) \notin {FunctionCode("Input"), FunctionCode("Output")}
    /\ last.op \in {"into_alt", "into_input", "into_output"} =>
         LET idx == last.pin \div 10
             pos == last.pin - 10 * idx
             c   == ListedCode[FunctionOf(last)]
         IN  /\ FunctionOf(last) \in Function
             /\ Len(last.acc) = 2
             /\ last.acc[2] = Write("FSEL", idx,
                    last.acc[1].val \cup {3 * pos + i : i \in AsU32(c)})

\* into_alt(Alt5) on pin 53 set exactly bit 10 (code 010 at position 3) of
\* the zero word FSEL[5]
C12_Witness ==
    /\ last.op = "into_alt" /\ last.fn = "Alt5" /\ last.pin = 53
    /\ FSEL[5] = {10}

\* bitwise OR of two 3-bit codes
CodeOr(a, b) == FieldOf(AsU32(a) \cup AsU32(b), 0)

\* C13: a configuration call with code f on a pin whose field holds g leaves
\* the field at g | f; into_input (code 000) changes no function-select word.
C13_FieldIsOr ==
    [][last'.op \in {"into_alt", "into_input", "into_output"} =>
        LET idx == last'.pin \div 10
            pos == last'.pin - 10 * idx
        IN  /\ FieldOf(FSEL'[idx], pos) =
                 CodeOr(FieldOf(FSEL[idx], pos), FunctionCode(FunctionOf(last')))
            /\ last'.op = "into_input" => FSEL' = FSEL]_vars

\* a first handle set pin 4 to Alt0 (100), a second handle for pin 4 then
\* called into_output (001) and the field holds 101
C13_Witness ==
    /\ Len(handles) = 2
    /\ handles[1].pin = 4 /\ handles[1].fn = "Alt0"
    /\ handles[2].pin = 4 /\ handles[2].state = "Output"
    /\ last.op = "into_output" /\ last.h = 2
    /\ FSEL[0] = {12, 14}
    /\ FieldOf(FSEL[0], 4) = 5

\* C14: clear() on pin p issues exactly one access, a write to SET word p/32
\* of the word with every bit set except bit p - 32*(p/32); it writes no CLR
\* word.
C14_ClearWritesComplementToSet ==
    last.op = "clear" =>
        LET idx == last.pin \div 32
        IN  /\ last.acc = <<Write("SET", idx, WordBits \ {last.pin - 32 * idx})>>
            /\ \A i \in 1..Len(last.acc) : last.acc[i].reg # "CLR"

\* clear() on pin 53 wrote all bits but bit 21 to SET word 1
C14_Witness ==
    /\ last.op = "clear" /\ last.pin = 53
    /\ last.acc = <<Write("SET", 1, (0..31) \ {21})>>

\* C15: with write-1-to-set / write-1-to-clear hardware, a set() or clear()
\* on the Output handle of pin p leaves the driven level of every other pin
\* as it was.
C15_OtherPinsKept ==
    [][last'.op \in {"set", "clear"} =>
        \A q \in 0..53 :
            q # last'.pin =>
                ((q - 32 * (q \div 32) \in out'[q \div 32])
                    <=> (q - 32 * (q \div 32) \in out[q \div 32]))]_vars

\* C16: for every handle the function-select index pin/10 is in 0..5, the
\* position pin - 10*(pin/10) in 0..9 (shift at most 27, field within bits
\* 0..29), the SET/CLR/LEV index pin/32 in 0..1 and the bit offset in 0..31;
\* every access issued addresses an existing word, a configuration call
\* writes all bits of its code inside bits 0..29 and set() writes exactly one
\* bit; pin 21 uses FSEL word 2 position 1 and SET word 0 bit 21, pin 35 FSEL
\* word 3 position 5 and SET word 1 bit 3.
C16_AddressingInRange ==
    /\ \A h \in HandleIds :
         LET pin == handles[h].pin
         IN  /\ pin \div 10 \in 0..5
             /\ pin - 10 * (pin \div 10) \in 0..9
             /\ 3 * (pin - 10 * (pin \div 10)) <= 27
             /\ pin \div 32 \in 0..1
             /\ pin - 32 * (pin \div 32) \in 0..31
    /\ \A i \in 1..Len(last.acc) :
         /\ last.acc[i].reg = "FSEL" => last.acc[i].idx \in 0..5
         /\ last.acc[i].reg \in {"SET", "CLR", "LEV"} => last.acc[i].idx \in 0..1
         /\ last.acc[i].val \subseteq WordBits
    /\ last.op \in {"into_alt", "into_input", "into_output"} =>
         LET pos  == last.pin - 10 * (last.pin \div 10)
             code == {3 * pos + i : i \in AsU32(FunctionCode(FunctionOf(last)))}
         IN  /\ last.acc[1].idx = last.pin \div 10
             /\ code \subseteq last.acc[2].val
             /\ code \subseteq 0..29
             /\ last.acc[2].val \ last.acc[1].val \subseteq FieldBits(pos)
             /\ last.pin = 21 => (last.acc[2].idx = 2 /\ pos = 1)
             /\ last.pin = 35 => (last.acc[2].idx = 3 /\ pos = 5)
    /\ last.op = "set" =>
         /\ Cardinality(last.acc[1].val) = 1
         /\ last.pin = 21 => last.acc = <<Write("SET", 0, {21})>>
         /\ last.pin = 35 => last.acc = <<Write("SET", 1, {3})>>

\* pin 21 was made an output from a zero word (field 1 of FSEL[2] is 001)
\* and then set through bit 21 of SET word 0
C16_Witness ==
    /\ last.op = "set" /\ last.pin = 21
    /\ last.acc = <<Write("SET", 0, {21})>>
    /\ FSEL[2] = {3}
    /\ 21 \in out[0]

\* C17: while the program runs and may still create a handle, new(pin)
\* succeeds for every valid pin, whether or not handles for that pin exist;
\* so an Input handle and an Output handle for one pin can coexist.
C17_NewIgnoresExistingHandles ==
    (~panicked /\ Len(handles) < MaxHandles) =>
        \A pin \in PinInputs \cap (0..53) :
            ENABLED (New(pin) /\ ~panicked' /\ Len(handles') = Len(handles) + 1
                        /\ handles'[Len(handles')].pin = pin)

\* two handles for pin 4, one Input and one Output
C17_Witness ==
    \E h1 \in HandleIds, h2 \in HandleIds :
        /\ handles[h1].pin = 4 /\ handles[h2].pin = 4
        /\ handles[h1].state = "Input" /\ handles[h2].state = "Output"

\* C19: started with zero function-select words, with operations run one
\* after the other and no two handles for one pin, the field of every Output
\* handle's pin is 001, of every Input handle's pin 000 and of every Alt
\* handle's pin the code handed to into_alt.
C19_TagMatchesField ==
    (\A h1 \in HandleIds, h2 \in HandleIds : h1 # h2 => handles[h1].pin # handles[h2].pin) =>
        \A h \in HandleIds :
            LET idx   == handles[h].pin \div 10
                field == FieldOf(FSEL[idx], handles[h].pin - 10 * idx)
            IN  /\ handles[h].state = "Output" => field = 1
                /\ handles[h].state = "Input" => field = 0
                /\ handles[h].state = "Alt" => field = FunctionCode(handles[h].fn)

\* pins 4 and 5 share FSEL word 0: pin 4 is Alt with Alt3 (111), pin 5 is an
\* Input (000) and the word holds exactly the bits of pin 4's field
C19_Witness ==
    /\ Len(handles) = 2
    /\ handles[1].pin = 4 /\ handles[1].state = "Alt" /\ handles[1].fn = "Alt3"
    /\ handles[2].pin = 5 /\ handles[2].state = "Input"
    /\ FSEL[0] = {12, 13, 14}

\* C20: new() issues no register access and changes no register; each of
\* into_alt, into_input and into_output issues exactly one read and then one
\* write, both of FSEL word pin/10, and leaves every other function-select
\* word and the driven output levels unchanged.
C20_ConfigTouchesOneWord ==
    [][/\ last'.op = "new" => (last'.acc = <<>> /\ FSEL' = FSEL /\ out' = out)
       /\ last'.op \in {"into_alt", "into_input", "into_output"} =>
            LET idx == last'.pin \div 10
            IN  /\ Len(last'.acc) = 2
                /\ last'.acc[1] = Read("FSEL", idx, FSEL[idx])
                /\ last'.acc[2] = Write("FSEL", idx, FSEL'[idx])
                /\ \A i \in 0..5 : i # idx => FSEL'[i] = FSEL[i]
                /\ out' = out]_vars

\* into_alt(Alt0) on pin 35 changed FSEL word 3 (bit 17) and left the five
\* other words at their prior content
C20_Witness ==
    /\ last.op = "into_alt" /\ last.pin = 35 /\ last.fn = "Alt0"
    /\ FSEL[3] = {1, 12, 14, 16, 17, 31}
    /\ \A i \in {0, 1, 2, 4, 5} : FSEL[i] = {1, 12, 14, 16, 31}

\* the bits of the code of function f at position pos of a function-select word
CodeAt(f, pos) == {3 * pos + i : i \in AsU32(FunctionCode(f))}

\* C18: while no into_alt call has started during another one, the field of
\* every pin configured by into_alt contains the code of its call; once the
\* read and write steps of two calls interleave this can fail (lost update).
C18_SequentialKeepsCodes ==
    ~overlapped =>
        \A h \in HandleIds :
            handles[h].state = "Alt" =>
                CodeAt(handles[h].fn, handles[h].pin - 10 * (handles[h].pin \div 10))
                    \subseteq FSEL[handles[h].pin \div 10]

\* lost update: into_alt(Alt3) on pin 4 and into_alt(Alt0) on pin 5 both
\* completed on the zero word FSEL[0], interleaved, and the word holds only
\* the code of pin 5
C18_Witness ==
    /\ overlapped /\ inflight = {}
    /\ Len(handles) = 2
    /\ handles[1].pin = 4 /\ handles[1].state = "Alt" /\ handles[1].fn = "Alt3"
    /\ handles[2].pin = 5 /\ handles[2].state = "Alt" /\ handles[2].fn = "Alt0"
    /\ FSEL[0] = {17}
    /\ FieldOf(FSEL[0], 4) = 0

====
